---- MODULE Spec2Model ----
(***************************************************************************)
(* Speaker-listener scenario with shared policies                          *)
(* (scenarios/custom/speaker_listener_shared.py).                          *)
(*                                                                         *)
(* The world holds 2 agents and 3 landmarks.  Colours are kept in          *)
(* hundredths (0.65 is 65) and positions and velocities in units of        *)
(* 1/PosScale, so that every vector of the program is a tuple of integers. *)
(* Object references (goal_a, goal_b, the agent handed to a hook) are      *)
(* indices into world.agents / world.landmarks; None is the index -1.      *)
(***************************************************************************)
EXTENDS Integers, Sequences, FiniteSets

\* ---------------------------------------------------------------- bounds
\* grid resolution of np.random.uniform: a draw is k/PosScale
PosScale == 2
\* number of distinct outcomes of the generator's uniform stream considered
NumStreams == 4
\* engine steps between two resets
MaxSteps == 2

\* ------------------------------------------------------------- constants
\* world.dim_c = 3
dim_c == 3
\* num_landmarks = 3
num_landmarks == 3
\* super().__init__(num_agents=2)
num_agents == 2
\* World.dim_p: the simulation is two-dimensional
dim_p == 2
\* World.dim_color: colours are RGB triples
dim_color == 3
\* a reference that is None
None == -1

\* agent.size = 0.075 and landmark.size = 0.04, in thousandths
AgentSize == 75
LandmarkSize == 40

\* np.array([0.25, 0.25, 0.25])
Gray == <<25, 25, 25>>
\* np.array([0.45, 0.45, 0.45])
Brighten == <<45, 45, 45>>
\* the colours assigned to landmarks 0, 1, 2
BaseColor == [i \in 0..2 |->
                IF i = 0 THEN <<65, 15, 15>>
                ELSE IF i = 1 THEN <<15, 65, 15>>
                ELSE <<15, 15, 65>>]

\* ------------------------------------------------------- numpy helpers
\* np.zeros(n)
Zeros(n) == [i \in 1..n |-> 0]
\* np.ones(n)
Ones(n) == [i \in 1..n |-> 1]
\* a + b on arrays of equal length
VecAdd(a, b) == [i \in 1..Len(a) |-> a[i] + b[i]]
\* a - b on arrays of equal length
VecSub(a, b) == [i \in 1..Len(a) |-> a[i] - b[i]]

RECURSIVE SumSquare(_)
\* np.sum(np.square(v))
SumSquare(v) == IF v = << >> THEN 0
                ELSE v[1] * v[1] + SumSquare(Tail(v))

\* ------------------------------------------------- the random generator
\* The j-th value of uniform stream s: np.random.uniform(-1, +1) lies in
\* [-1, 1), i.e. in -PosScale .. PosScale-1 on the grid.
Uniform(s, j) ==
    ((s * (j + 1) + (j * (j + 1)) \div 2 + (s * s * j) \div 3) % (2 * PosScale))
    - PosScale

\* np.random.uniform(-1, +1, world.dim_p) for the e-th entity drawn
UniformVec(s, e) == [d \in 1..dim_p |-> Uniform(s, dim_p * e + d - 1)]

\* ------------------------------------------------------------- entities
\* Agent() as constructed by the engine, before the scenario touches it
NewAgent == [name |-> "", collide |-> "default", size |-> 0,
             movable |-> "default", silent |-> "default",
             goal_a |-> None, goal_b |-> None, color |-> << >>,
             p_pos |-> << >>, p_vel |-> << >>, c |-> << >>]

\* Landmark() as constructed by the engine
NewLandmark == [name |-> "", collide |-> "default", size |-> 0,
                movable |-> "default", color |-> << >>,
                p_pos |-> << >>, p_vel |-> << >>]

AgentName(i) == IF i = 0 THEN "agent 0" ELSE "agent 1"
LandmarkName(i) == IF i = 0 THEN "landmark 0"
                   ELSE IF i = 1 THEN "landmark 1" ELSE "landmark 2"

\* Agents of another world built by the same scenario: references 2 and 3.
\* 2 is that world's speaker (its goal_b is that world's landmark 3),
\* 3 is that world's listener (goal_b unset).
ForeignAgents == [r \in 2..3 |->
    [NewAgent EXCEPT !.name = AgentName(r - 2), !.collide = "False",
                     !.size = AgentSize, !.silent = "True",
                     !.goal_a = IF r = 2 THEN 3 ELSE None,
                     !.goal_b = IF r = 2 THEN 3 ELSE None,
                     !.color = Gray,
                     !.p_pos = <<r - 3, 0>>, !.p_vel = Zeros(dim_p),
                     !.c = Zeros(dim_c)]]

ForeignLandmarks == [r \in 3..3 |->
    [NewLandmark EXCEPT !.name = LandmarkName(0), !.collide = "False",
                        !.movable = "False", !.size = LandmarkSize,
                        !.color = BaseColor[0],
                        !.p_pos = <<1, 1>>, !.p_vel = Zeros(dim_p)]]

\* the object behind an agent reference
AgentOf(ref, w) == IF ref \in DOMAIN w.agents THEN w.agents[ref]
                   ELSE ForeignAgents[ref]

\* the object behind a landmark reference
LandmarkOf(ref, w) == IF ref \in DOMAIN w.landmarks THEN w.landmarks[ref]
                      ELSE ForeignLandmarks[ref]

\* ------------------------------------------------------------ reset_world
\* super().reset_world(world): the base scenario's generic randomisation of
\* the physical state, from stream b
super_reset_world(w, b) ==
    [w EXCEPT
       !.agents = [i \in DOMAIN w.agents |->
                     [w.agents[i] EXCEPT !.p_pos = UniformVec(b, i),
                                         !.p_vel = UniformVec(b, i + 1),
                                         !.c = Ones(w.dim_c)]],
       !.landmarks = [i \in DOMAIN w.landmarks |->
                     [w.landmarks[i] EXCEPT !.p_pos = UniformVec(b, i + 2),
                                            !.p_vel = UniformVec(b, i + 3)]]]

\* a stale goal survives a reset: goal_b is drawn only when it is unset
AssignGoalsKeep(w, k) ==
    [w EXCEPT !.agents = [i \in DOMAIN w.agents |->
        IF i = 0
        THEN [w.agents[i] EXCEPT !.goal_a = 1,
                                 !.goal_b = IF w.agents[0].goal_b = None
                                            THEN k ELSE w.agents[0].goal_b]
        ELSE [w.agents[i] EXCEPT !.goal_a = None, !.goal_b = None]]]

\* lines 70-75: clear every agent's goals, then agent 0 gets
\* goal_a = agents[1] and goal_b = np.random.choice(landmarks) = landmark k
AssignGoals(w, k) ==
    LET cleared == [i \in DOMAIN w.agents |->
                      [w.agents[i] EXCEPT !.goal_a = None, !.goal_b = None]]
    IN [w EXCEPT !.agents =
          [cleared EXCEPT ![0] = [cleared[0] EXCEPT !.goal_a = 1,
                                                    !.goal_b = k]]]

\* the brightened colour is written to the goal landmark
AssignColorsOnLandmark(w) ==
    LET base == [i \in DOMAIN w.landmarks |->
                   [w.landmarks[i] EXCEPT !.color = BaseColor[i]]]
        gb == w.agents[0].goal_b
    IN [w EXCEPT
          !.agents = [i \in DOMAIN w.agents |->
                        [w.agents[i] EXCEPT !.color = Gray]],
          !.landmarks = [base EXCEPT ![gb] =
                           [base[gb] EXCEPT !.color =
                              VecAdd(base[gb].color, Brighten)]]]

\* the special colour of the goal is never assigned
AssignColorsNoSpecial(w) ==
    [w EXCEPT
       !.agents = [i \in DOMAIN w.agents |->
                     [w.agents[i] EXCEPT !.color = Gray]],
       !.landmarks = [i \in DOMAIN w.landmarks |->
                     [w.landmarks[i] EXCEPT !.color = BaseColor[i]]]]

\* lines 76-84: every agent gray, the landmarks their primary colours, then
\* agents[0].goal_a.color = agents[0].goal_b.color + 0.45
AssignColors(w) ==
    LET gray == [i \in DOMAIN w.agents |->
                   [w.agents[i] EXCEPT !.color = Gray]]
        base == [i \in DOMAIN w.landmarks |->
                   [w.landmarks[i] EXCEPT !.color = BaseColor[i]]]
        ga == gray[0].goal_a
        gb == gray[0].goal_b
    IN [w EXCEPT
          !.agents = [gray EXCEPT ![ga] =
                        [gray[ga] EXCEPT !.color =
                           VecAdd(base[gb].color, Brighten)]],
          !.landmarks = base]

\* the landmarks keep the velocity they had
RandomStatesKeepVel(w, s) ==
    [w EXCEPT
       !.agents = [i \in DOMAIN w.agents |->
                     [w.agents[i] EXCEPT !.p_pos = UniformVec(s, i),
                                         !.p_vel = Zeros(dim_p),
                                         !.c = Zeros(w.dim_c)]],
       !.landmarks = [i \in DOMAIN w.landmarks |->
                     [w.landmarks[i] EXCEPT
                        !.p_pos = UniformVec(s, num_agents + i)]]]

\* lines 86-92: uniform positions, zero velocity and zero communication
\* vector for the agents; uniform positions and zero velocity for the
\* landmarks.  The draws are consumed in order: agents, then landmarks.
RandomStates(w, s) ==
    [w EXCEPT
       !.agents = [i \in DOMAIN w.agents |->
                     [w.agents[i] EXCEPT !.p_pos = UniformVec(s, i),
                                         !.p_vel = Zeros(dim_p),
                                         !.c = Zeros(w.dim_c)]],
       !.landmarks = [i \in DOMAIN w.landmarks |->
                     [w.landmarks[i] EXCEPT
                        !.p_pos = UniformVec(s, num_agents + i),
                        !.p_vel = Zeros(dim_p)]]]

\* Scenario.reset_world(world) with the base scenario's stream b, the
\* landmark k drawn by np.random.choice and the uniform stream s
reset_world(w, b, k, s) ==
    RandomStates(AssignColors(AssignGoals(super_reset_world(w, b), k)), s)

\* ------------------------------------------------------------- make_world
\* lines 39-61: the world before its first reset
NewWorld ==
    [dim_c |-> dim_c,
     collaborative |-> "True",
     agents |-> [i \in 0..(num_agents - 1) |->
                   [NewAgent EXCEPT !.name = AgentName(i),
                                    !.collide = "False",
                                    !.size = AgentSize,
                                    !.movable = IF i = 0 THEN "True"
                                                ELSE "default",
                                    !.silent = "True"]],
     landmarks |-> [i \in 0..(num_landmarks - 1) |->
                   [NewLandmark EXCEPT !.name = LandmarkName(i),
                                       !.collide = "False",
                                       !.movable = "False",
                                       !.size = LandmarkSize]]]

\* Scenario.make_world()
make_world(b, k, s) == reset_world(NewWorld, b, k, s)

\* ------------------------------------------------------- hook outcomes
\* a hook has not been called
NoResult == [status |-> "none", scalar |-> 0, vector |-> << >>, exception |-> ""]
\* return of a number
ReturnScalar(x) == [status |-> "returned", scalar |-> x, vector |-> << >>, exception |-> ""]
\* return of an array
ReturnVector(v) == [status |-> "returned", scalar |-> 0, vector |-> v, exception |-> ""]
\* an exception leaves the hook
Raise(e) == [status |-> "raised", scalar |-> 0, vector |-> << >>, exception |-> e]

\* ----------------------------------------------------------------- reward
\* the distance is measured from the agent that asks
rewardOfCaller(agent, w) ==
    LET a == w.agents[0]
    IN 0 - SumSquare(VecSub(AgentOf(agent, w).p_pos,
                            LandmarkOf(a.goal_b, w).p_pos))

\* Scenario.reward(agent, world): squared distance from goal_a to goal_b of
\* agent 0, negated; the agent argument is not used
reward(agent, w) ==
    LET a == w.agents[0]
    IN 0 - SumSquare(VecSub(AgentOf(a.goal_a, w).p_pos,
                            LandmarkOf(a.goal_b, w).p_pos))

\* --------------------------------------------------------- benchmark_data
\* names bound at module level by the imports and the class statement
ModuleGlobals == {"Union", "List", "np", "World", "Agent", "Landmark",
                  "BaseScenario", "ConfigurableScenario", "Scenario"}
\* names bound inside benchmark_data: its parameters
BenchmarkLocals == {"self", "agent", "world"}

\* the hook delegates to reward(agent, world)
benchmark_dataDelegates(agent, w) == ReturnScalar(reward(agent, w))

\* Scenario.benchmark_data(agent, world): evaluates the arguments of
\* self.reward(agent, reward); the name reward is looked up as a variable
benchmark_data(agent, w) ==
    IF "reward" \in BenchmarkLocals \cup ModuleGlobals
    THEN ReturnScalar(reward(agent, w))
    ELSE Raise("NameError")

\* ------------------------------------------------------------ observation
\* the block shows the observer's own colour
goal_colorOwn(agent, w) == AgentOf(agent, w).color

\* lines 108-110: the colour of the agent's goal_b, zeros when it is unset
goal_color(agent, w) ==
    IF AgentOf(agent, w).goal_b # None
    THEN LandmarkOf(AgentOf(agent, w).goal_b, w).color
    ELSE Zeros(dim_color)

\* the landmarks are listed last to first
entity_posReversed(agent, w) ==
    VecSub(w.landmarks[2].p_pos, AgentOf(agent, w).p_pos)
    \o VecSub(w.landmarks[1].p_pos, AgentOf(agent, w).p_pos)
    \o VecSub(w.landmarks[0].p_pos, AgentOf(agent, w).p_pos)

\* lines 113-115: landmark position minus own position, for the landmarks
\* in the order of world.landmarks, concatenated
entity_pos(agent, w) ==
    VecSub(w.landmarks[0].p_pos, AgentOf(agent, w).p_pos)
    \o VecSub(w.landmarks[1].p_pos, AgentOf(agent, w).p_pos)
    \o VecSub(w.landmarks[2].p_pos, AgentOf(agent, w).p_pos)

\* the listener is shown the colour of the speaker's goal
observationLeak(agent, w) ==
    IF agent = 0
    THEN ReturnVector(AgentOf(agent, w).p_vel \o entity_pos(agent, w)
                      \o goal_color(agent, w) \o Ones(1))
    ELSE IF agent = 1
    THEN ReturnVector(AgentOf(agent, w).p_vel \o entity_pos(agent, w)
                      \o goal_color(0, w) \o Zeros(1))
    ELSE Raise("Unexpected agent")

\* an agent that is not the speaker is taken for the listener
observationNoRaise(agent, w) ==
    IF agent = 0
    THEN ReturnVector(AgentOf(agent, w).p_vel \o entity_pos(agent, w)
                      \o goal_color(agent, w) \o Ones(1))
    ELSE ReturnVector(AgentOf(agent, w).p_vel \o entity_pos(agent, w)
                      \o Zeros(3) \o Zeros(1))

\* Scenario.observation(agent, world).  The value of super().observation is
\* discarded.  The agent is compared with world.agents[0] and
\* world.agents[1] by identity.
observation(agent, w) ==
    IF agent = 0
    THEN ReturnVector(AgentOf(agent, w).p_vel \o entity_pos(agent, w)
                      \o goal_color(agent, w) \o Ones(1))
    ELSE IF agent = 1
    THEN ReturnVector(AgentOf(agent, w).p_vel \o entity_pos(agent, w)
                      \o Zeros(3) \o Zeros(1))
    ELSE Raise("Unexpected agent")

\* ------------------------------------------------------------- the engine
\* velocity the engine's integration leaves on entity e, outcome s
StepVel(s, e) == [d \in 1..dim_p |-> ((s + e + d) % 3) - 1]
\* communication vector the engine leaves on an agent, outcome s
StepComm(s, n) == [i \in 1..n |-> (s + i) % 2]

\* World.step(): the engine moves the entities and sets their velocities
\* and the agents' communication vectors
EngineStep(w, s) ==
    [w EXCEPT
       !.agents = [i \in DOMAIN w.agents |->
                     [w.agents[i] EXCEPT
                        !.p_vel = StepVel(s, i),
                        !.p_pos = VecAdd(w.agents[i].p_pos, StepVel(s, i)),
                        !.c = StepComm(s, w.dim_c)]],
       !.landmarks = [i \in DOMAIN w.landmarks |->
                     [w.landmarks[i] EXCEPT
                        !.p_vel = StepVel(s, num_agents + i),
                        !.p_pos = VecAdd(w.landmarks[i].p_pos,
                                         StepVel(s, num_agents + i))]]]

\* ------------------------------------------------------------------ state
\* world:  the World built by make_world
\* call:   the hook the engine invoked last, with its inputs
\* result: what that hook returned or raised
\* steps:  engine steps since the last reset
VARIABLES world, call, result, steps

vars == <<world, call, result, steps>>

Streams == 1..NumStreams
\* what np.random.choice(world.landmarks) can return
LandmarkRefs == 0..(num_landmarks - 1)
\* the agents a caller can hand to a hook: the world's and foreign ones
AgentRefs == 0..3

\* a coordinate outside [-1, 1]
OutOfRange(x) == x < 0 - PosScale \/ x > PosScale

\* the engine has left velocities, messages and positions that a reset
\* has to overwrite
Dirty(w) ==
    /\ \E i \in DOMAIN w.landmarks : w.landmarks[i].p_vel # Zeros(dim_p)
    /\ \E i \in DOMAIN w.agents : w.agents[i].p_vel # Zeros(dim_p)
    /\ \E i \in DOMAIN w.agents : w.agents[i].c # Zeros(dim_c)
    /\ \/ \E i \in DOMAIN w.agents : \E d \in 1..dim_p :
             OutOfRange(w.agents[i].p_pos[d])
       \/ \E i \in DOMAIN w.landmarks : \E d \in 1..dim_p :
             OutOfRange(w.landmarks[i].p_pos[d])

Call(op, agent, choice, prev_goal, prev_dirty) ==
    [op |-> op, agent |-> agent, choice |-> choice,
     prev_goal |-> prev_goal, prev_dirty |-> prev_dirty]

Init ==
    \E b \in Streams, s \in Streams, k \in LandmarkRefs :
        /\ world = make_world(b, k, s)
        /\ call = Call("make_world", None, k, None, FALSE)
        /\ result = NoResult
        /\ steps = 0

ResetWorld ==
    \E b \in Streams, s \in Streams, k \in LandmarkRefs :
        /\ world' = reset_world(world, b, k, s)
        /\ call' = Call("reset_world", None, k, world.agents[0].goal_b,
                        Dirty(world))
        /\ result' = NoResult
        /\ steps' = 0

Step ==
    /\ steps < MaxSteps
    /\ \E s \in Streams : world' = EngineStep(world, s)
    /\ call' = Call("step", None, None, None, FALSE)
    /\ result' = NoResult
    /\ steps' = steps + 1

Reward ==
    \E a \in AgentRefs :
        /\ call' = Call("reward", a, None, None, FALSE)
        /\ result' = ReturnScalar(reward(a, world))
        /\ UNCHANGED <<world, steps>>

Observation ==
    \E a \in AgentRefs :
        /\ call' = Call("observation", a, None, None, FALSE)
        /\ result' = observation(a, world)
        /\ UNCHANGED <<world, steps>>

BenchmarkData ==
    \E a \in AgentRefs :
        /\ call' = Call("benchmark_data", a, None, None, FALSE)
        /\ result' = benchmark_data(a, world)
        /\ UNCHANGED <<world, steps>>

Next == ResetWorld \/ Step \/ Reward \/ Observation \/ BenchmarkData

Spec == Init /\ [][Next]_vars

\* ================================================================= claims
\* the state is the one a reset (make_world's included) has just produced
AfterReset == call.op \in {"make_world", "reset_world"}
\* the landmark agent 0's goal_b refers to
Goal == world.agents[0].goal_b
\* the observation vectors of the speaker and of the listener
SpeakerObs == observation(0, world).vector
ListenerObs == observation(1, world).vector
\* the world the same reset would have left had it drawn landmark k
GoalVariant(w, k) == AssignColors(AssignGoals(w, k))

\* C1 as stated: after every reset the goal landmark's colour is its primary
\* colour plus 0.45 on each channel, and the other two landmarks have their
\* primary colours.
C1_GoalLandmarkBrightened ==
    AfterReset =>
        \A i \in DOMAIN world.landmarks :
            world.landmarks[i].color =
                IF i = Goal THEN VecAdd(BaseColor[i], Brighten)
                ELSE BaseColor[i]

\* C1 amended: after every reset each of the three landmarks, the goal
\* landmark included, has exactly its primary colour; the primary colour of
\* the goal landmark plus 0.45 is the colour of agent 0's goal_a.
C1_LandmarksKeepBaseColor ==
    AfterReset =>
        /\ \A i \in DOMAIN world.landmarks :
               world.landmarks[i].color = BaseColor[i]
        /\ world.agents[world.agents[0].goal_a].color =
               VecAdd(BaseColor[Goal], Brighten)

C1_Witness ==
    /\ call.op = "reset_world"
    /\ Goal = 2
    /\ call.prev_goal = 0
    /\ world.landmarks[2].color = <<15, 15, 65>>

\* C2: in every state agent 0's goal_a is agent 1, its goal_b is one of the
\* 3 landmarks, agent 1's goals are unset, and right after a reset goal_b is
\* the landmark that reset drew, not the one of an earlier reset.
C2_GoalsAssigned ==
    /\ world.agents[0].goal_a = 1
    /\ Goal \in DOMAIN world.landmarks
    /\ Goal # None
    /\ world.agents[1].goal_a = None
    /\ world.agents[1].goal_b = None
    /\ AfterReset => Goal = call.choice

C2_Witness ==
    /\ call.op = "reset_world"
    /\ call.prev_goal \in DOMAIN world.landmarks
    /\ call.prev_goal # call.choice
    /\ Goal = call.choice

\* C3: for either agent, reward is minus the squared distance between agent
\* 1 and the goal landmark, so both agents get the same reward.
C3_RewardIsNegSquaredDistance ==
    LET dx == world.agents[1].p_pos[1] - world.landmarks[Goal].p_pos[1]
        dy == world.agents[1].p_pos[2] - world.landmarks[Goal].p_pos[2]
    IN /\ \A a \in DOMAIN world.agents : reward(a, world) = 0 - (dx * dx + dy * dy)
       /\ reward(0, world) = reward(1, world)
       /\ call.op = "reward" => /\ result.status = "returned"
                                /\ result.scalar = 0 - (dx * dx + dy * dy)

C3_Witness ==
    /\ call.op = "reward"
    /\ call.agent = 0
    /\ result.scalar < 0
    /\ world.agents[0].p_pos # world.agents[1].p_pos
    /\ steps > 0

\* C4: the goal-colour block of the speaker's observation is the colour
\* stored on the goal landmark, which is not the zero vector, and the
\* trailing scalar is 1.
C4_SpeakerSeesGoalColor ==
    /\ SubSeq(SpeakerObs, 9, 11) = world.landmarks[Goal].color
    /\ SubSeq(SpeakerObs, 9, 11) # <<0, 0, 0>>
    /\ SpeakerObs[12] = 1
    /\ (call.op = "observation" /\ call.agent = 0) =>
           /\ result.status = "returned"
           /\ result.vector = SpeakerObs

C4_Witness ==
    /\ call.op = "observation"
    /\ call.agent = 0
    /\ Goal = 1
    /\ SubSeq(result.vector, 9, 11) = <<15, 65, 15>>

\* C5: the goal-colour block of the listener's observation is the zero
\* vector and its trailing scalar is 0, and the listener's observation is
\* the same whichever landmark the reset drew, positions and velocities
\* being equal.
C5_GoalHiddenFromListener ==
    /\ SubSeq(ListenerObs, 9, 11) = <<0, 0, 0>>
    /\ ListenerObs[12] = 0
    /\ \A k \in DOMAIN world.landmarks :
           observation(1, GoalVariant(world, k)) = observation(1, world)
    /\ (call.op = "observation" /\ call.agent = 1) =>
           /\ result.status = "returned"
           /\ result.vector = ListenerObs

C5_Witness ==
    /\ call.op = "observation"
    /\ call.agent = 1
    /\ result.status = "returned"
    /\ Goal = 2
    /\ GoalVariant(world, 0) # world

\* C6 as stated: after every reset both agents are gray.
C6_BothAgentsGray ==
    AfterReset => \A i \in DOMAIN world.agents : world.agents[i].color = Gray

\* C6 amended: after every reset agent 0 is gray, and agent 1, gray at
\* first, has been given the goal landmark's colour plus 0.45 by the last
\* colour assignment.
C6_OnlySpeakerGray ==
    AfterReset =>
        /\ world.agents[0].color = Gray
        /\ world.agents[1].color = VecAdd(world.landmarks[Goal].color, Brighten)
        /\ world.agents[1].color # Gray

C6_Witness ==
    /\ call.op = "reset_world"
    /\ Goal = 2
    /\ world.agents[1].color = <<60, 60, 110>>

\* C7: for both agents the observation is own velocity, then the position
\* of landmarks 0, 1, 2 relative to the agent, then the 3 entries of the
\* goal-colour block, then the id scalar: 12 entries.
C7_ObservationLayout ==
    \A a \in DOMAIN world.agents :
        LET obs == observation(a, world).vector
            me == world.agents[a]
        IN /\ Len(obs) = 12
           /\ <<obs[1], obs[2]>> = me.p_vel
           /\ \A i \in DOMAIN world.landmarks : \A d \in 1..2 :
                  obs[2 + 2 * i + d] = world.landmarks[i].p_pos[d] - me.p_pos[d]
           /\ SubSeq(obs, 9, 11) = IF a = 0 THEN world.landmarks[Goal].color
                                   ELSE <<0, 0, 0>>
           /\ obs[12] = IF a = 0 THEN 1 ELSE 0
           /\ (call.op = "observation" /\ call.agent = a) => result.vector = obs

C7_Witness ==
    /\ call.op = "observation"
    /\ call.agent \in DOMAIN world.agents
    /\ Len(result.vector) = 12
    /\ world.agents[call.agent].p_vel # <<0, 0>>
    /\ world.landmarks[0].p_pos # world.landmarks[2].p_pos

\* C8: a call of observation with an agent that is neither agents[0] nor
\* agents[1] raises 'Unexpected agent', returns no vector and leaves the
\* world as it was.
C8_UnexpectedAgentRaises ==
    [][(call'.op = "observation" /\ call'.agent \notin DOMAIN world.agents) =>
           /\ result'.status = "raised"
           /\ result'.exception = "Unexpected agent"
           /\ result'.vector = << >>
           /\ world' = world]_vars

C8_Witness ==
    /\ call.op = "observation"
    /\ call.agent = 2
    /\ result.status = "raised"
    /\ steps > 0

\* C9: benchmark_data raises a name error for every agent in every state;
\* it returns nothing and does not hand back the reward.
C9_BenchmarkDataRaises ==
    /\ \A a \in AgentRefs :
           /\ benchmark_data(a, world).status = "raised"
           /\ benchmark_data(a, world).exception = "NameError"
    /\ call.op = "benchmark_data" =>
           /\ result.status = "raised"
           /\ result.exception = "NameError"
           /\ result.status # "returned"

C9_Witness ==
    /\ call.op = "benchmark_data"
    /\ call.agent = 1
    /\ result.exception = "NameError"
    /\ reward(1, world) # 0

\* C10: after every reset every agent has zero velocity and a zero
\* communication vector of length 3, every landmark has zero velocity, every
\* coordinate lies in [-1, 1], and there are 2 agents and 3 landmarks.
C10_ResetPhysicalState ==
    AfterReset =>
        /\ Cardinality(DOMAIN world.agents) = 2
        /\ Cardinality(DOMAIN world.landmarks) = 3
        /\ \A i \in DOMAIN world.agents :
               /\ world.agents[i].p_vel = <<0, 0>>
               /\ world.agents[i].c = <<0, 0, 0>>
               /\ Len(world.agents[i].c) = 3
               /\ Len(world.agents[i].p_pos) = 2
               /\ \A d \in 1..2 : ~OutOfRange(world.agents[i].p_pos[d])
        /\ \A i \in DOMAIN world.landmarks :
               /\ world.landmarks[i].p_vel = <<0, 0>>
               /\ Len(world.landmarks[i].p_pos) = 2
               /\ \A d \in 1..2 : ~OutOfRange(world.landmarks[i].p_pos[d])

C10_Witness ==
    /\ call.op = "reset_world"
    /\ call.prev_dirty
    /\ world.landmarks[1].p_vel = <<0, 0>>

====
